---- MODULE Spec2Model ----
(***************************************************************************)
(* City Tax (Imposta di Soggiorno) engine of smartbook:                    *)
(*   - the tax_rules and guests tables and the repositories' queries,      *)
(*   - TaxCalculationService.calculate_tax_for_booking, step by step at    *)
(*     its two awaits (rule lookup, guest lookup),                         *)
(*   - the date arithmetic it rests on.                                    *)
(* Money is counted in cents (Numeric(10, 2) columns, Decimal values).     *)
(***************************************************************************)
EXTENDS Integers, Sequences, FiniteSets, TLC

VARIABLES
    tax_rules,   \* rows of table tax_rules
    guests,      \* rows of table guests
    calls,       \* invocations of calculate_tax_for_booking, and what each returned last
    answer,      \* the last call of a query, a validation or a report, and what it returned
    stored,      \* the results that a caller has stored, the input of its reports
    bookings     \* rows of table bookings

vars == <<tax_rules, guests, calls, answer, stored, bookings>>

-----------------------------------------------------------------------------
(* Python values *)

\* None, and a value that is not None (nullable columns, Optional results).
None == <<>>
Some(v) == <<v>>
Val(o) == o[1]

\* Truthiness of an Optional[int]: None and 0 are falsy.
Truthy(o) == o # None /\ Val(o) # 0

Min(a, b) == IF a <= b THEN a ELSE b

\* Python's a // b on integers, b # 0: the floor of the quotient.
FloorDiv(a, b) == IF b > 0 THEN a \div b ELSE (-a) \div (-b)

\* Tuple comparison (a1, a2) < (b1, b2).
TupleLT(a, b) == a[1] < b[1] \/ (a[1] = b[1] /\ a[2] < b[2])

-----------------------------------------------------------------------------
(* datetime.date *)

Date(y, m, d) == [year |-> y, month |-> m, day |-> d]

IsLeap(y) == y % 4 = 0 /\ (y % 100 # 0 \/ y % 400 = 0)

DaysInMonth(y, m) ==
    IF m = 2 THEN (IF IsLeap(y) THEN 29 ELSE 28)
    ELSE IF m \in {4, 6, 9, 11} THEN 30 ELSE 31

IsDate(d) == d.month \in 1..12 /\ d.day \in 1..DaysInMonth(d.year, d.month)

RECURSIVE DaysBeforeMonth(_, _)
DaysBeforeMonth(y, m) ==
    IF m = 1 THEN 0 ELSE DaysBeforeMonth(y, m - 1) + DaysInMonth(y, m - 1)

DaysBeforeYear(y) ==
    365 * (y - 1) + (y - 1) \div 4 - (y - 1) \div 100 + (y - 1) \div 400

\* date.toordinal(): the day number in the proleptic Gregorian calendar.
toordinal(d) == DaysBeforeYear(d.year) + DaysBeforeMonth(d.year, d.month) + d.day

\* (a - b).days
DaysBetween(a, b) == toordinal(a) - toordinal(b)

\* a <= b and a < b on dates (Python and SQL compare dates field by field).
DateLT(a, b) ==
    \/ a.year < b.year
    \/ a.year = b.year /\ TupleLT(<<a.month, a.day>>, <<b.month, b.day>>)
DateLE(a, b) == a = b \/ DateLT(a, b)

-----------------------------------------------------------------------------
(* Decimal *)

\* str(x) of an amount of money: its sign, its euros and its two decimals.
DecimalStr(cents) ==
    LET a == IF cents < 0 THEN -cents ELSE cents
    IN  [neg |-> cents < 0, units |-> a \div 100, hundredths |-> a % 100]

\* Decimal(s) of such a string: the exact amount, in cents.
DecimalOf(s) ==
    LET a == s.units * 100 + s.hundredths
    IN  IF s.neg THEN -a ELSE a

-----------------------------------------------------------------------------
(* float: IEEE 754 binary64, rounded to nearest, ties to even. A float is 0.0 *)
(* or mant * 2^exp, mant a list of MantissaBits bits that starts with 1 (the  *)
(* amounts are not negative and neither overflow nor are subnormal).          *)

MantissaBits == 53

\* A natural number in binary, the most significant bit first; 0 is <<>>.
RECURSIVE Bits(_)
Bits(n) == IF n = 0 THEN <<>> ELSE Bits(n \div 2) \o <<n % 2>>

Zeros(k) == [i \in 1..k |-> 0]

\* The first k bits of the binary fraction r/q, 0 <= r < q, and what is left after them.
RECURSIVE FractionBits(_, _, _)
FractionBits(r, q, k) ==
    IF k = 0 THEN <<>>
    ELSE <<(2 * r) \div q>> \o FractionBits((2 * r) % q, q, k - 1)

RECURSIVE FractionRest(_, _, _)
FractionRest(r, q, k) == IF k = 0 THEN r ELSE FractionRest((2 * r) % q, q, k - 1)

\* The zero bits that the binary fraction r/q starts with, 0 < r < q.
RECURSIVE LeadingZeros(_, _)
LeadingZeros(r, q) == IF 2 * r >= q THEN 0 ELSE 1 + LeadingZeros(2 * r, q)

\* bits + 1
RECURSIVE Increment(_)
Increment(bits) ==
    IF bits = <<>> THEN <<1>>
    ELSE IF bits[Len(bits)] = 0 THEN [bits EXCEPT ![Len(bits)] = 1]
    ELSE Increment(SubSeq(bits, 1, Len(bits) - 1)) \o <<0>>

\* a + b, for lists of n bits: carry[i] is the carry out of the i lowest bits.
AddBits(a, b, n) ==
    LET carry[i \in 0..n] ==
            IF i = 0 THEN 0
            ELSE (a[n - i + 1] + b[n - i + 1] + carry[i - 1]) \div 2
    IN  (IF carry[n] = 1 THEN <<1>> ELSE <<>>)
            \o [j \in 1..n |-> (a[j] + b[j] + carry[n - j]) % 2]

Zero == [mant |-> <<>>, exp |-> 0]

\* The float nearest to bits * 2^exp (plus, when `sticky`, something below the last
\* bit); bits starts with 1, and is longer than the mantissa when `sticky`.
RoundToFloat(bits, exp, sticky) ==
    IF bits = <<>> THEN Zero
    ELSE IF Len(bits) <= MantissaBits
    THEN [mant |-> bits \o Zeros(MantissaBits - Len(bits)),
          exp |-> exp - (MantissaBits - Len(bits))]
    ELSE LET kept == SubSeq(bits, 1, MantissaBits)
             half == bits[MantissaBits + 1] = 1
             more == sticky \/ \E i \in (MantissaBits + 2)..Len(bits) : bits[i] = 1
             up == half /\ (more \/ kept[MantissaBits] = 1)
             e == exp + (Len(bits) - MantissaBits)
             m == IF up THEN Increment(kept) ELSE kept
         IN  IF Len(m) > MantissaBits
             THEN [mant |-> SubSeq(m, 1, MantissaBits), exp |-> e + 1]
             ELSE [mant |-> m, exp |-> e]

\* p/q in binary, to two bits more than a mantissa holds: p/q = bits * 2^exp, plus
\* something below the last bit when `sticky` (0 <= p, 0 < q).
Expansion(p, q) ==
    LET whole == Bits(p \div q)
        r == p % q
    IN  IF whole # <<>>
        THEN LET k == MantissaBits + 2 - Len(whole)
             IN  [bits |-> whole \o FractionBits(r, q, k), exp |-> -k,
                  sticky |-> FractionRest(r, q, k) # 0]
        ELSE IF r = 0 THEN [bits |-> <<>>, exp |-> 0, sticky |-> FALSE]
        ELSE LET k == LeadingZeros(r, q) + MantissaBits + 2
             IN  [bits |-> SubSeq(FractionBits(r, q, k), k - MantissaBits - 1, k),
                  exp |-> -k, sticky |-> FractionRest(r, q, k) # 0]

\* The float nearest to p/q: float(Decimal) of p/q, and int / int.
FloatOfRatio(p, q) ==
    LET x == Expansion(p, q) IN RoundToFloat(x.bits, x.exp, x.sticky)

\* p/q is a float (nothing is lost in FloatOfRatio).
IsFloat(p, q) ==
    LET x == Expansion(p, q)
    IN  ~ x.sticky /\ \A i \in (MantissaBits + 1)..Len(x.bits) : x.bits[i] = 0

\* A bug: the amount truncated to whole euros.
FloatOfEuros(cents) == FloatOfRatio(cents \div 100, 1)

\* float(amount) of a Decimal amount of money, and float(0) of the int 0.
FloatOfDecimal(cents) == FloatOfRatio(cents, 100)

\* x + y on floats.
FloatAdd(x, y) ==
    IF x = Zero THEN y
    ELSE IF y = Zero THEN x
    ELSE LET e == IF x.exp <= y.exp THEN x.exp ELSE y.exp
             a == x.mant \o Zeros(x.exp - e)
             b == y.mant \o Zeros(y.exp - e)
             n == IF Len(a) >= Len(b) THEN Len(a) ELSE Len(b)
             pa == Zeros(n - Len(a)) \o a
             pb == Zeros(n - Len(b)) \o b
         IN  RoundToFloat(AddBits(pa, pb, n), e, FALSE)

-----------------------------------------------------------------------------
(* TaxCalculationService, the computation *)

DefaultAgeThreshold == 14
DefaultBusDriverRatio == 25

\* GuestRole
LEADER == "leader"
MEMBER == "member"
BUS_DRIVER == "bus_driver"
TOUR_GUIDE == "tour_guide"
GuestRole == {LEADER, MEMBER, BUS_DRIVER, TOUR_GUIDE}

\* A bug: the age in days // 365, as GuestService.calculate_tax_exemptions counts it.
_calculate_age_in_days(birth_date, reference_date) ==
    DaysBetween(reference_date, birth_date) \div 365

_calculate_age(birth_date, reference_date) ==
    LET age == reference_date.year - birth_date.year
    IN  IF TupleLT(<<reference_date.month, reference_date.day>>,
                   <<birth_date.month, birth_date.day>>)
        THEN age - 1
        ELSE age

\* exemption_rules.get("bus_driver_ratio", 25)
GetBusDriverRatio(exemption_rules) ==
    IF "bus_driver_ratio" \in DOMAIN exemption_rules
    THEN exemption_rules.bus_driver_ratio
    ELSE DefaultBusDriverRatio

\* tax_rule.age_exemption_threshold or 14
AgeThreshold(tax_rule) ==
    IF Truthy(tax_rule.age_exemption_threshold)
    THEN Val(tax_rule.age_exemption_threshold)
    ELSE DefaultAgeThreshold

\* A bug: no "continue" and "if" for "elif", a guest is counted under every category
\* that matches.
CountGuestEveryCategory(c, guest, check_in_date, age_threshold) ==
    [exempt_minors |-> c.exempt_minors
         + IF _calculate_age(guest.date_of_birth, check_in_date) < age_threshold
           THEN 1 ELSE 0,
     exempt_drivers |-> c.exempt_drivers + IF guest.role = BUS_DRIVER THEN 1 ELSE 0,
     exempt_guides |-> c.exempt_guides + IF guest.role = TOUR_GUIDE THEN 1 ELSE 0,
     exempt_other |-> c.exempt_other + IF guest.is_tax_exempt THEN 1 ELSE 0]

\* One pass of the loop "for guest in guests" over the counters.
CountGuest(c, guest, check_in_date, age_threshold) ==
    IF _calculate_age(guest.date_of_birth, check_in_date) < age_threshold
    THEN [c EXCEPT !.exempt_minors = @ + 1]
    ELSE IF guest.role = BUS_DRIVER THEN [c EXCEPT !.exempt_drivers = @ + 1]
    ELSE IF guest.role = TOUR_GUIDE THEN [c EXCEPT !.exempt_guides = @ + 1]
    ELSE IF guest.is_tax_exempt THEN [c EXCEPT !.exempt_other = @ + 1]
    ELSE c

\* A bug: "break" for "continue", the loop ends at the first minor.
RECURSIVE CountGuestsBreak(_, _, _, _)
CountGuestsBreak(c, gs, check_in_date, age_threshold) ==
    IF gs = <<>> THEN c
    ELSE IF _calculate_age(Head(gs).date_of_birth, check_in_date) < age_threshold
    THEN [c EXCEPT !.exempt_minors = @ + 1]
    ELSE CountGuestsBreak(CountGuest(c, Head(gs), check_in_date, age_threshold),
                          Tail(gs), check_in_date, age_threshold)

RECURSIVE CountGuests(_, _, _, _)
CountGuests(c, gs, check_in_date, age_threshold) ==
    IF gs = <<>> THEN c
    ELSE CountGuests(CountGuest(c, Head(gs), check_in_date, age_threshold),
                     Tail(gs), check_in_date, age_threshold)

ZeroCounters ==
    [exempt_minors |-> 0, exempt_drivers |-> 0, exempt_guides |-> 0, exempt_other |-> 0]

\* A bug: max for min, every driver counted is exempt.
ActualExemptDriversMax(exempt_drivers, n_guests, driver_ratio) ==
    IF exempt_drivers >= FloorDiv(n_guests, driver_ratio)
    THEN exempt_drivers
    ELSE FloorDiv(n_guests, driver_ratio)

\* The allowance of exempt drivers: min(drivers counted, len(guests) // ratio).
ActualExemptDrivers(exempt_drivers, n_guests, driver_ratio) ==
    Min(exempt_drivers, FloorDiv(n_guests, driver_ratio))

\* A bug: the drivers counted are summed, not the drivers allowed.
TotalExemptAllDrivers(c, actual_exempt_drivers, actual_exempt_guides) ==
    c.exempt_minors + c.exempt_drivers + actual_exempt_guides + c.exempt_other

\* total_exempt = exempt_minors + actual_exempt_drivers + actual_exempt_guides + exempt_other
TotalExempt(c, actual_exempt_drivers, actual_exempt_guides) ==
    c.exempt_minors + actual_exempt_drivers + actual_exempt_guides + c.exempt_other

\* _calculate_exemptions: the breakdown, or the exception raised.
_calculate_exemptions(gs, check_in_date, tax_rule) ==
    LET age_threshold == AgeThreshold(tax_rule)
        c == CountGuests(ZeroCounters, gs, check_in_date, age_threshold)
        driver_ratio == GetBusDriverRatio(tax_rule.exemption_rules)
    IN  IF driver_ratio = 0
        THEN [raised |-> "ZeroDivisionError"]
        ELSE LET actual_exempt_drivers ==
                     ActualExemptDrivers(c.exempt_drivers, Len(gs), driver_ratio)
                 actual_exempt_guides == c.exempt_guides
             IN  [raised |-> "",
                  total_exempt |->
                      TotalExempt(c, actual_exempt_drivers, actual_exempt_guides),
                  exempt_minors |-> c.exempt_minors,
                  exempt_minors_threshold |-> age_threshold,
                  exempt_drivers_count |-> c.exempt_drivers,
                  exempt_drivers_allowed |-> actual_exempt_drivers,
                  exempt_drivers_ratio |-> driver_ratio,
                  exempt_guides |-> actual_exempt_guides,
                  exempt_other |-> c.exempt_other]

\* The dict returned by _calculate_exemptions.
ExemptionBreakdown(e) ==
    [k \in DOMAIN e \ {"raised"} |-> e[k]]

\* A bug: the cap replaces the nights of the stay, also when it is larger.
TaxableNightsCapOnly(total_nights, tax_rule) ==
    IF Truthy(tax_rule.max_taxable_nights)
    THEN Val(tax_rule.max_taxable_nights)
    ELSE total_nights

\* "Apply max nights cap if configured"
TaxableNights(total_nights, tax_rule) ==
    IF Truthy(tax_rule.max_taxable_nights)
    THEN Min(total_nights, Val(tax_rule.max_taxable_nights))
    ELSE total_nights

\* A bug: the rate is converted through a float of whole euros.
TotalTaxWholeEuros(base_rate_per_night, taxable_guests, taxable_nights) ==
    (base_rate_per_night \div 100) * 100 * taxable_guests * taxable_nights

\* Decimal(str(rate)) * taxable_guests * taxable_nights
TotalTax(base_rate_per_night, taxable_guests, taxable_nights) ==
    DecimalOf(DecimalStr(base_rate_per_night)) * taxable_guests * taxable_nights

\* A bug: a same-day check-out passes.
StayIsNegative(total_nights) == total_nights < 0

\* "if total_nights <= 0: raise"
StayIsInvalid(total_nights) == total_nights <= 0

\* What a call ends with: an exception, or a TaxCalculationResult.
Raise(e) == [raised |-> e, result |-> None]
Return(r) == [raised |-> "", result |-> Some(r)]

\* calculate_tax_for_booking from the guests' return on (after both awaits).
CalculateWith(booking_id, check_in_date, check_out_date, tax_rule, gs) ==
    IF gs = <<>> THEN Raise("TaxCalculationError")
    ELSE
    LET total_nights == DaysBetween(check_out_date, check_in_date) IN
    IF StayIsInvalid(total_nights) THEN Raise("TaxCalculationError")
    ELSE
    LET taxable_nights == TaxableNights(total_nights, tax_rule)
        exemptions == _calculate_exemptions(gs, check_in_date, tax_rule)
    IN  IF exemptions.raised # "" THEN Raise(exemptions.raised)
        ELSE
        LET taxable_guests == Len(gs) - exemptions.total_exempt
        IN  Return([booking_id |-> booking_id,
                    total_guests |-> Len(gs),
                    taxable_guests |-> taxable_guests,
                    exempt_guests |-> exemptions.total_exempt,
                    base_rate_per_night |->
                        DecimalOf(DecimalStr(tax_rule.base_rate_per_night)),
                    total_nights |-> total_nights,
                    taxable_nights |-> taxable_nights,
                    total_tax_amount |->
                        TotalTax(tax_rule.base_rate_per_night, taxable_guests,
                                 taxable_nights),
                    exemption_breakdown |-> ExemptionBreakdown(exemptions)])

\* dict.get(key, default)
Get(dict, key, default) == IF key \in DOMAIN dict THEN dict[key] ELSE default

\* if condition: warnings.append(text)
Warning(condition, text) == IF condition THEN <<text>> ELSE <<>>

\* validate_tax_configuration(tax_rule): the warnings, in the order of the checks.
\* `x and x < 0` is False when x is None or 0.
validate_tax_configuration(tax_rule) ==
    LET threshold == tax_rule.age_exemption_threshold
        max_nights == tax_rule.max_taxable_nights
        exemption_rules == tax_rule.exemption_rules
        driver_ratio == IF "bus_driver_ratio" \in DOMAIN exemption_rules
                        THEN Some(exemption_rules.bus_driver_ratio)
                        ELSE None
    IN  Warning(tax_rule.base_rate_per_night <= 0, "Base rate must be greater than 0")
        \o Warning(Truthy(threshold) /\ Val(threshold) < 0,
                   "Age exemption threshold cannot be negative")
        \o Warning(Truthy(threshold) /\ Val(threshold) > 18,
                   "Age exemption threshold unusually high (> 18 years)")
        \o Warning(max_nights # None /\ Val(max_nights) <= 0,
                   "Max taxable nights must be greater than 0 if set")
        \o Warning(Truthy(driver_ratio) /\ Val(driver_ratio) <= 0,
                   "Bus driver ratio must be greater than 0")

-----------------------------------------------------------------------------
(* TaxReportGenerator *)

\* sum(...) of a list of ints (amounts of money: of Decimals, counted in cents).
RECURSIVE Sum(_)
Sum(xs) == IF xs = <<>> THEN 0 ELSE Head(xs) + Sum(Tail(xs))

\* str(uuid): the id as text.
Str(id) == <<"str", id>>

\* date.isoformat(): YYYY-MM-DD
isoformat(d) ==
    <<d.year, "-", d.month \div 10, d.month % 10, "-", d.day \div 10, d.day % 10>>

\* TaxReportGenerator(tenant_name, facility_code)
tenant_name == "Rifugio"
facility_code == "RF-1"

_get_month_name(month) ==
    Get([m \in 1..12 |->
            <<"Gennaio", "Febbraio", "Marzo", "Aprile", "Maggio", "Giugno", "Luglio",
              "Agosto", "Settembre", "Ottobre", "Novembre", "Dicembre">>[m]],
        month, "")

_get_quarter_months(quarter) ==
    Get([q \in 1..4 |->
            << <<"Gennaio", "Febbraio", "Marzo">>, <<"Aprile", "Maggio", "Giugno">>,
               <<"Luglio", "Agosto", "Settembre">>,
               <<"Ottobre", "Novembre", "Dicembre">> >>[q]],
        quarter, <<>>)

\* A bug: the averages divide without the guard "if total_bookings > 0".
AveragePerBookingUnguarded(total_guests, total_tax, total_bookings) ==
    IF total_bookings = 0 THEN [raised |-> "ZeroDivisionError"]
    ELSE [guests |-> FloatOfRatio(total_guests, total_bookings),
          tax |-> FloatOfRatio(total_tax, 100 * total_bookings)]

\* "average_per_booking": float(total / total_bookings) if total_bookings > 0 else 0.
\* (The 28 digits of the Decimal quotient decide the same float as the quotient.)
AveragePerBooking(total_guests, total_tax, total_bookings) ==
    [guests |-> IF total_bookings > 0
                THEN FloatOfRatio(total_guests, total_bookings) ELSE 0,
     tax |-> IF total_bookings > 0
             THEN FloatOfRatio(total_tax, 100 * total_bookings) ELSE 0]

\* TaxReportGenerator.generate_monthly_report, run on the day `today`.
generate_monthly_report(year, month, results, today) ==
    LET total_bookings == Len(results)
        total_guests == Sum([i \in DOMAIN results |-> results[i].total_guests])
        total_taxable_guests == Sum([i \in DOMAIN results |-> results[i].taxable_guests])
        total_exempt_guests == Sum([i \in DOMAIN results |-> results[i].exempt_guests])
        total_tax == Sum([i \in DOMAIN results |-> results[i].total_tax_amount])
        total_exempt_minors ==
            Sum([i \in DOMAIN results |->
                    Get(results[i].exemption_breakdown, "exempt_minors", 0)])
        total_exempt_drivers ==
            Sum([i \in DOMAIN results |->
                    Get(results[i].exemption_breakdown, "exempt_drivers_allowed", 0)])
        total_exempt_guides ==
            Sum([i \in DOMAIN results |->
                    Get(results[i].exemption_breakdown, "exempt_guides", 0)])
        total_nights ==
            Sum([i \in DOMAIN results |->
                    results[i].total_nights * results[i].total_guests])
        total_taxable_nights ==
            Sum([i \in DOMAIN results |->
                    results[i].taxable_nights * results[i].taxable_guests])
    IN  [report_type |-> "monthly",
         period |-> [year |-> year, month |-> month,
                     month_name |-> _get_month_name(month)],
         property |-> [name |-> tenant_name, facility_code |-> facility_code],
         summary |-> [total_bookings |-> total_bookings,
                      total_guests |-> total_guests,
                      total_taxable_guests |-> total_taxable_guests,
                      total_exempt_guests |-> total_exempt_guests,
                      total_nights |-> total_nights,
                      total_taxable_nights |-> total_taxable_nights,
                      total_tax_collected |-> FloatOfDecimal(total_tax)],
         exemptions |-> [minors |-> total_exempt_minors,
                         bus_drivers |-> total_exempt_drivers,
                         tour_guides |-> total_exempt_guides,
                         total |-> total_exempt_guests],
         average_per_booking |->
             AveragePerBooking(total_guests, total_tax, total_bookings),
         generated_at |-> isoformat(today)]

\* TaxReportGenerator.generate_quarterly_report, run on the day `today`.
generate_quarterly_report(year, quarter, results, today) ==
    LET total_tax == Sum([i \in DOMAIN results |-> results[i].total_tax_amount])
    IN  [report_type |-> "quarterly",
         period |-> [year |-> year, quarter |-> quarter,
                     months |-> _get_quarter_months(quarter)],
         property |-> [name |-> tenant_name, facility_code |-> facility_code],
         summary |-> [total_bookings |-> Len(results),
                      total_tax_collected |-> FloatOfDecimal(total_tax)],
         generated_at |-> isoformat(today)]

\* A row of the detailed report.
BookingDetail(result) ==
    [booking_id |-> Str(result.booking_id),
     guests |-> result.total_guests,
     taxable_guests |-> result.taxable_guests,
     exempt_guests |-> result.exempt_guests,
     nights |-> result.total_nights,
     taxable_nights |-> result.taxable_nights,
     rate_per_night |-> FloatOfDecimal(result.base_rate_per_night),
     tax_amount |-> FloatOfDecimal(result.total_tax_amount),
     exemptions |-> result.exemption_breakdown]

\* TaxReportGenerator.generate_booking_detail_report, run on the day `today`.
generate_booking_detail_report(results, today) ==
    [report_type |-> "detailed",
     property |-> [name |-> tenant_name, facility_code |-> facility_code],
     bookings |-> [i \in DOMAIN results |-> BookingDetail(results[i])],
     generated_at |-> isoformat(today)]

-----------------------------------------------------------------------------
(* GuestService *)

\* calculate_tax_exemptions(..., age_threshold: int = 14)
GuestServiceAgeThreshold == 14

\* (check_in_date - guest.date_of_birth).days // 365
age_on_checkin(check_in_date, date_of_birth) ==
    FloorDiv(DaysBetween(check_in_date, date_of_birth), 365)

\* One pass of the loop of calculate_tax_exemptions: the reason why the guest is
\* exempt, "" when is_exempt stays False.
ExemptionReason(guest, check_in_date, age_threshold) ==
    IF age_on_checkin(check_in_date, guest.date_of_birth) < age_threshold THEN "minor"
    ELSE IF guest.role = BUS_DRIVER THEN "bus_driver"
    ELSE IF guest.role = TOUR_GUIDE THEN "tour_guide"
    ELSE ""

\* The statistics that calculate_tax_exemptions returns for the guests it read.
ExemptionStatistics(roster, check_in_date, age_threshold) ==
    LET because(reason) ==
            Cardinality({g \in roster :
                ExemptionReason(g, check_in_date, age_threshold) = reason})
        exempt_count == Cardinality(roster) - because("")
    IN  [total_guests |-> Cardinality(roster),
         exempt_count |-> exempt_count,
         taxable_count |-> Cardinality(roster) - exempt_count,
         exempt_minors |-> because("minor"),
         exempt_drivers |-> because("bus_driver"),
         exempt_guides |-> because("tour_guide")]

-----------------------------------------------------------------------------
(* The tables and the repositories' queries *)

\* A row of tax_rules: TaxRule(**rule_data, property_id=...), with a fresh id.
TaxRuleRow(id, property_id, rule_data) ==
    [id |-> id,
     property_id |-> property_id,
     valid_from |-> rule_data.valid_from,
     valid_until |-> rule_data.valid_until,
     base_rate_per_night |-> rule_data.base_rate_per_night,
     max_taxable_nights |-> rule_data.max_taxable_nights,
     age_exemption_threshold |-> rule_data.age_exemption_threshold,
     exemption_rules |-> rule_data.exemption_rules]

\* A row of guests: Guest(**guest_data), with a fresh id.
GuestRow(id, guest_data) ==
    [id |-> id,
     booking_id |-> guest_data.booking_id,
     date_of_birth |-> guest_data.date_of_birth,
     role |-> guest_data.role,
     is_tax_exempt |-> guest_data.is_tax_exempt]

\* WHERE property_id = :p AND valid_from <= :d AND (valid_until IS NULL OR valid_until >= :d)
ActiveRuleFilter(r, property_id, check_date) ==
    /\ r.property_id = property_id
    /\ DateLE(r.valid_from, check_date)
    /\ (r.valid_until = None \/ DateLE(check_date, Val(r.valid_until)))

\* A bug: ORDER BY valid_from without .desc().
FirstByValidFromAsc(rows) ==
    {r \in rows : \A s \in rows : DateLE(r.valid_from, s.valid_from)}

\* ORDER BY valid_from DESC LIMIT 1: the rows that may come first (rows with equal
\* valid_from come in an order the database chooses).
FirstByValidFromDesc(rows) ==
    {r \in rows : \A s \in rows : DateLE(s.valid_from, r.valid_from)}

\* TaxRuleRepository.get_active_rule: the values the query may return.
get_active_rule(rows, property_id, check_date) ==
    LET matching == {r \in rows : ActiveRuleFilter(r, property_id, check_date)}
    IN  IF matching = {} THEN {None}
        ELSE {Some(r) : r \in FirstByValidFromDesc(matching)}

\* The orders in which a query without ORDER BY may return a set of rows.
Orderings(rows) ==
    LET n == Cardinality(rows)
    IN  {s \in [1..n -> rows] : \A i, j \in 1..n : s[i] = s[j] => i = j}

\* GuestRepository.get_by_booking_id: the rows selected.
get_by_booking_id(rows, booking_id) == {g \in rows : g.booking_id = booking_id}

\* A bug: valid_from <= :start for valid_from <= :end.
HistoricalRuleFilterFromStart(r, property_id, start_date, end_date) ==
    /\ r.property_id = property_id
    /\ DateLE(r.valid_from, start_date)
    /\ (r.valid_until = None \/ DateLE(start_date, Val(r.valid_until)))

\* WHERE property_id = :p AND valid_from <= :end
\*   AND (valid_until IS NULL OR valid_until >= :start)
HistoricalRuleFilter(r, property_id, start_date, end_date) ==
    /\ r.property_id = property_id
    /\ DateLE(r.valid_from, end_date)
    /\ (r.valid_until = None \/ DateLE(start_date, Val(r.valid_until)))

\* ORDER BY valid_from: the orders in which the rows may come (rows with equal
\* valid_from come in an order the database chooses).
OrderedByValidFrom(rows) ==
    {s \in Orderings(rows) :
        \A i, j \in DOMAIN s : i < j => DateLE(s[i].valid_from, s[j].valid_from)}

\* TaxRuleRepository.get_historical_rules: the lists the query may return.
get_historical_rules(rows, property_id, start_date, end_date) ==
    OrderedByValidFrom(
        {r \in rows : HistoricalRuleFilter(r, property_id, start_date, end_date)})

-----------------------------------------------------------------------------
(* Operations *)

\* TaxRuleRepository.create_tax_rule (no validation of the data, no overlap check).
create_tax_rule(property_id, rule_data) ==
    /\ tax_rules' = tax_rules \cup
           {TaxRuleRow(Cardinality(tax_rules) + 1, property_id, rule_data)}
    /\ UNCHANGED <<guests, calls, answer, stored, bookings>>

\* GuestRepository.create_guest
create_guest(guest_data) ==
    /\ guests' = guests \cup {GuestRow(Cardinality(guests) + 1, guest_data)}
    /\ UNCHANGED <<tax_rules, calls, answer, stored, bookings>>

\* BaseRepository.update of a rule the caller has loaded and assigned to: the row
\* takes the values of the object (no validation of the data, no overlap check).
update(obj) ==
    /\ \E r \in tax_rules : r.id = obj.id
    /\ tax_rules' = {r \in tax_rules : r.id # obj.id} \cup {obj}
    /\ UNCHANGED <<guests, calls, answer, stored, bookings>>

\* TaxRuleRepository(session, property_id).get_historical_rules(start_date, end_date)
\* is called and returns; `seen` is the table it read.
GetHistoricalRules(property_id, start_date, end_date) ==
    /\ \E value \in get_historical_rules(tax_rules, property_id, start_date, end_date) :
          answer' = Some([op |-> "get_historical_rules", property_id |-> property_id,
                          start_date |-> start_date, end_date |-> end_date,
                          seen |-> tax_rules, value |-> value])
    /\ UNCHANGED <<tax_rules, guests, calls, stored, bookings>>

\* A report generator is called on a list of results and returns.
GenerateMonthlyReport(year, month, results, today) ==
    /\ answer' = Some([op |-> "generate_monthly_report", year |-> year,
                       month |-> month, results |-> results,
                       value |-> generate_monthly_report(year, month, results, today)])
    /\ UNCHANGED <<tax_rules, guests, calls, stored, bookings>>

GenerateQuarterlyReport(year, quarter, results, today) ==
    /\ answer' = Some([op |-> "generate_quarterly_report", year |-> year,
                       quarter |-> quarter, results |-> results,
                       value |-> generate_quarterly_report(year, quarter, results, today)])
    /\ UNCHANGED <<tax_rules, guests, calls, stored, bookings>>

GenerateBookingDetailReport(results, today) ==
    /\ answer' = Some([op |-> "generate_booking_detail_report", results |-> results,
                       value |-> generate_booking_detail_report(results, today)])
    /\ UNCHANGED <<tax_rules, guests, calls, stored, bookings>>

\* An invocation that is not running; `last` is what its last run returned.
Idle(last) ==
    [pc |-> "idle", tenant_id |-> "", booking_id |-> "", check_in_date |-> None,
     check_out_date |-> None, tax_rule |-> None, seen |-> {}, last |-> last]

\* TaxCalculationService(session, tenant_id).calculate_tax_for_booking(...) is
\* called: it runs to its first await, the rule lookup.
Call(i, tenant_id, booking_id, check_in_date, check_out_date) ==
    /\ calls[i].pc = "idle"
    /\ calls' = [calls EXCEPT ![i] =
           [@ EXCEPT !.pc = "get_active_rule", !.tenant_id = tenant_id,
                     !.booking_id = booking_id,
                     !.check_in_date = Some(check_in_date),
                     !.check_out_date = Some(check_out_date)]]
    /\ UNCHANGED <<tax_rules, guests, answer, stored, bookings>>

\* What the caller holds after a run: the arguments, what the run read, how it ended.
Ended(c, tax_rule, seen, roster, end) ==
    Some([tenant_id |-> c.tenant_id, booking_id |-> c.booking_id,
          check_in_date |-> Val(c.check_in_date),
          check_out_date |-> Val(c.check_out_date),
          tax_rule |-> tax_rule, seen |-> seen, roster |-> roster,
          raised |-> end.raised, result |-> end.result])

\* A bug: the rule read is kept on the service (self.tax_rule), where it replaces the
\* rule of every invocation that is suspended at its guest lookup.
AfterGetActiveRuleShared(i) ==
    /\ calls[i].pc = "get_active_rule"
    /\ \E tax_rule \in get_active_rule(tax_rules, calls[i].tenant_id,
                                        Val(calls[i].check_in_date)) :
          calls' = [j \in DOMAIN calls |->
              IF j = i
              THEN IF tax_rule = None
                   THEN Idle(Ended(calls[i], None, tax_rules, {},
                                   Raise("TaxCalculationError")))
                   ELSE [calls[i] EXCEPT !.pc = "get_by_booking_id",
                                         !.tax_rule = tax_rule, !.seen = tax_rules]
              ELSE IF calls[j].pc = "get_by_booking_id"
                   THEN [calls[j] EXCEPT !.tax_rule = tax_rule]
                   ELSE calls[j]]
    /\ UNCHANGED <<tax_rules, guests, answer, stored, bookings>>

\* get_active_rule(check_in_date) returns: "if not tax_rule: raise", else the run
\* goes on to its second await, the guest lookup.
AfterGetActiveRule(i) ==
    /\ calls[i].pc = "get_active_rule"
    /\ \E tax_rule \in get_active_rule(tax_rules, calls[i].tenant_id,
                                        Val(calls[i].check_in_date)) :
          calls' = [calls EXCEPT ![i] =
              IF tax_rule = None
              THEN Idle(Ended(@, None, tax_rules, {}, Raise("TaxCalculationError")))
              ELSE [@ EXCEPT !.pc = "get_by_booking_id", !.tax_rule = tax_rule,
                             !.seen = tax_rules]]
    /\ UNCHANGED <<tax_rules, guests, answer, stored, bookings>>

\* get_by_booking_id(booking_id) returns the guests in some order, and the run
\* computes to its end without another await.
AfterGetByBookingId(i) ==
    /\ calls[i].pc = "get_by_booking_id"
    /\ LET c == calls[i]
           roster == get_by_booking_id(guests, c.booking_id)
       IN  \E gs \in Orderings(roster) :
             calls' = [calls EXCEPT ![i] =
                 Idle(Ended(c, c.tax_rule, c.seen, roster,
                            CalculateWith(c.booking_id, Val(c.check_in_date),
                                          Val(c.check_out_date), Val(c.tax_rule), gs)))]
    /\ UNCHANGED <<tax_rules, guests, answer, stored, bookings>>

\* GuestService.calculate_tax_exemptions is called and returns: every guest of the
\* booking that it finds exempt has is_tax_exempt set and is updated; the flag of the
\* other guests is left as it is.
calculate_tax_exemptions(booking_id, check_in_date, age_threshold) ==
    LET roster == get_by_booking_id(guests, booking_id)
        exempt == {g \in roster :
                      ExemptionReason(g, check_in_date, age_threshold) # ""}
    IN  /\ guests' = (guests \ exempt)
                        \cup {[g EXCEPT !.is_tax_exempt = TRUE] : g \in exempt}
        /\ answer' = Some([op |-> "calculate_tax_exemptions",
                           booking_id |-> booking_id,
                           check_in_date |-> check_in_date,
                           age_threshold |-> age_threshold,
                           roster |-> roster,
                           value |-> ExemptionStatistics(roster, check_in_date,
                                                         age_threshold)])
        /\ UNCHANGED <<tax_rules, calls, stored, bookings>>

\* validate_tax_configuration(tax_rule) returns its warnings.
ValidateTaxConfiguration(tax_rule) ==
    /\ answer' = Some([op |-> "validate_tax_configuration", tax_rule |-> tax_rule,
                       value |-> validate_tax_configuration(tax_rule)])
    /\ UNCHANGED <<tax_rules, guests, calls, stored, bookings>>

-----------------------------------------------------------------------------
(* BookingService: the status of a booking. Each operation is taken whole, from *)
(* its first read to its return.                                               *)

PENDING == "pending"
IN_PROGRESS == "in_progress"
COMPLETE == "complete"
SYNCED == "synced"
ERROR == "error"
BookingStatus == {PENDING, IN_PROGRESS, COMPLETE, SYNCED, ERROR}

\* A row of table bookings (the columns that the operations read or write).
BookingRow(id, property_id, expected_guests) ==
    [id |-> id, property_id |-> property_id, status |-> PENDING,
     expected_guests |-> expected_guests]

\* BookingRepository(session, property_id).get_by_id: scalar_one_or_none().
get_by_id(rows, property_id, booking_id) ==
    LET found == {b \in rows : b.id = booking_id /\ b.property_id = property_id}
    IN  IF found = {} THEN None ELSE Some(CHOOSE b \in found : TRUE)

\* BookingRepository.update_status: the row of the booking, if the property has it,
\* takes the new status.
update_status(rows, property_id, booking_id, new_status) ==
    {IF b.id = booking_id /\ b.property_id = property_id
     THEN [b EXCEPT !.status = new_status] ELSE b : b \in rows}

\* GuestRepository.get_leader_for_booking: scalar_one_or_none() returns the leader,
\* None without one, and raises when the booking has several.
get_leader_for_booking(rows, booking_id) ==
    LET leaders == {g \in rows : g.booking_id = booking_id /\ g.role = LEADER}
    IN  IF leaders = {} THEN [raised |-> "", value |-> None]
        ELSE IF Cardinality(leaders) = 1
        THEN [raised |-> "", value |-> Some(CHOOSE g \in leaders : TRUE)]
        ELSE [raised |-> "MultipleResultsFound", value |-> None]

\* GuestRepository.validate_guest_completeness (has_leader, total_guests, is_complete).
validate_guest_completeness(rows, booking_id) ==
    LET leader == get_leader_for_booking(rows, booking_id)
        total_guests == Cardinality(get_by_booking_id(rows, booking_id))
    IN  [raised |-> leader.raised,
         has_leader |-> leader.value # None,
         total_guests |-> total_guests,
         is_complete |-> leader.value # None /\ total_guests > 0]

\* An operation on a booking ends: with the status it found (None when it found no
\* booking) and the exception it raised ("" when it returned).
Marked(op, booking_id, booking, raised) ==
    answer' = Some([op |-> op, booking_id |-> booking_id,
                    found |-> IF booking = None THEN None ELSE Some(Val(booking).status),
                    raised |-> raised])

\* BookingService(session, property_id).mark_in_progress(booking_id)
mark_in_progress(property_id, booking_id) ==
    LET booking == get_by_id(bookings, property_id, booking_id)
        raised == IF booking = None THEN "BookingServiceError"
                  ELSE IF Val(booking).status # PENDING THEN "BookingServiceError"
                  ELSE ""
    IN  /\ bookings' = IF raised = ""
                       THEN update_status(bookings, property_id, booking_id, IN_PROGRESS)
                       ELSE bookings
        /\ Marked("mark_in_progress", booking_id, booking, raised)
        /\ UNCHANGED <<tax_rules, guests, calls, stored>>

\* BookingService.mark_complete(booking_id): the guests are validated and counted, the
\* status of the booking is not read.
mark_complete(property_id, booking_id) ==
    LET booking == get_by_id(bookings, property_id, booking_id)
        validation == validate_guest_completeness(guests, booking_id)
        raised == IF booking = None THEN "BookingServiceError"
                  ELSE IF validation.raised # "" THEN validation.raised
                  ELSE IF ~validation.is_complete THEN "BookingServiceError"
                  ELSE IF validation.total_guests < Val(booking).expected_guests
                  THEN "BookingServiceError"
                  ELSE ""
    IN  /\ bookings' = IF raised = ""
                       THEN update_status(bookings, property_id, booking_id, COMPLETE)
                       ELSE bookings
        /\ Marked("mark_complete", booking_id, booking, raised)
        /\ UNCHANGED <<tax_rules, guests, calls, stored>>

\* BookingService.mark_synced(booking_id)
mark_synced(property_id, booking_id) ==
    LET booking == get_by_id(bookings, property_id, booking_id)
        raised == IF booking = None THEN "BookingServiceError"
                  ELSE IF Val(booking).status # COMPLETE THEN "BookingServiceError"
                  ELSE ""
    IN  /\ bookings' = IF raised = ""
                       THEN update_status(bookings, property_id, booking_id, SYNCED)
                       ELSE bookings
        /\ Marked("mark_synced", booking_id, booking, raised)
        /\ UNCHANGED <<tax_rules, guests, calls, stored>>

\* BookingService.mark_error(booking_id): update_status without a check; without the
\* booking it returns None, which BookingResponse.model_validate rejects.
mark_error(property_id, booking_id) ==
    LET booking == get_by_id(bookings, property_id, booking_id)
    IN  /\ bookings' = update_status(bookings, property_id, booking_id, ERROR)
        /\ Marked("mark_error", booking_id, booking,
                  IF booking = None THEN "ValidationError" ELSE "")
        /\ UNCHANGED <<tax_rules, guests, calls, stored>>

-----------------------------------------------------------------------------
(* GuestService: the guests of a booking are entered. The data have passed      *)
(* their schema (GuestLeaderCreate, GuestMemberCreate), which requires a role,  *)
(* the names, the sex and the date of birth, and for a leader the document:     *)
(* _validate_leader_documents and _validate_member_minimums accept them. Each   *)
(* operation is taken whole, from its first read to its return.                 *)

\* An operation on the guests of a booking ends, with the exception it raised ("" when
\* it returned).
Entered(op, booking_id, raised) ==
    answer' = Some([op |-> op, booking_id |-> booking_id, raised |-> raised])

\* guest_dict: the data, with the booking, the role and the flag that the service sets.
GuestDict(booking_id, data, role) ==
    [booking_id |-> booking_id, date_of_birth |-> data.date_of_birth, role |-> role,
     is_tax_exempt |-> FALSE]

\* GuestService.create_group_leader(booking_id, leader_data): refused when the
\* booking has a leader; the guest is created with role LEADER.
create_group_leader(booking_id, leader_data) ==
    LET existing_leader == get_leader_for_booking(guests, booking_id)
        raised == IF existing_leader.raised # "" THEN existing_leader.raised
                  ELSE IF existing_leader.value # None THEN "TULPSValidationError"
                  ELSE ""
    IN  /\ guests' = IF raised = ""
                     THEN guests \cup {GuestRow(Cardinality(guests) + 1,
                                           GuestDict(booking_id, leader_data, LEADER))}
                     ELSE guests
        /\ Entered("create_group_leader", booking_id, raised)
        /\ UNCHANGED <<tax_rules, calls, stored, bookings>>

\* GuestService.create_group_member(booking_id, member_data): the guest is created
\* with the role of the data, member_data.role.
create_group_member(booking_id, member_data) ==
    /\ guests' = guests \cup {GuestRow(Cardinality(guests) + 1,
                                  GuestDict(booking_id, member_data, member_data.role))}
    /\ Entered("create_group_member", booking_id, "")
    /\ UNCHANGED <<tax_rules, calls, stored, bookings>>

\* GuestService.bulk_create_members(booking_id, members_data): every guest of the
\* list is created with the role of its data.
bulk_create_members(booking_id, members_data) ==
    /\ guests' = guests \cup
           {GuestRow(Cardinality(guests) + k,
                     GuestDict(booking_id, members_data[k], members_data[k].role)) :
               k \in DOMAIN members_data}
    /\ Entered("bulk_create_members", booking_id, "")
    /\ UNCHANGED <<tax_rules, calls, stored, bookings>>

-----------------------------------------------------------------------------
(* Inputs *)

Feb27 == Date(2024, 2, 27)
Feb28 == Date(2024, 2, 28)
Feb29 == Date(2024, 2, 29)
Mar01 == Date(2024, 3, 1)
Mar02 == Date(2024, 3, 2)

\* The day after d (d + timedelta(days=1)).
NextDay(d) ==
    IF d.day < DaysInMonth(d.year, d.month) THEN Date(d.year, d.month, d.day + 1)
    ELSE IF d.month < 12 THEN Date(d.year, d.month + 1, 1)
    ELSE Date(d.year + 1, 1, 1)

\* {} and dicts with or without the key bus_driver_ratio.
EmptyDict == <<>>

\* rule_data with the nullable columns unset and no exemption configuration.
PlainRule(valid_from, valid_until, rate) ==
    [valid_from |-> valid_from, valid_until |-> valid_until,
     base_rate_per_night |-> rate, max_taxable_nights |-> None,
     age_exemption_threshold |-> None, exemption_rules |-> EmptyDict]

\* The rules an administrator creates: two properties; rules that follow one another,
\* that overlap, that share their valid_from, that have expired, that start later.
RuleInputs ==
    { <<"p1", PlainRule(Feb27, None, 250)>>,
      <<"p1", PlainRule(Feb28, None, 100)>>,
      <<"p1", PlainRule(Feb28, None, 300)>>,
      <<"p1", PlainRule(Feb27, Some(Feb28), 400)>>,
      <<"p1", PlainRule(Mar01, None, 500)>>,
      <<"p2", PlainRule(Feb28, None, 900)>> }

Adult == Date(1990, 6, 15)
\* 15 years old on 2024-02-29, 16 the day after.
Teen == Date(2008, 3, 1)

GuestInputs ==
    { [booking_id |-> "b1", date_of_birth |-> Adult, role |-> MEMBER,
       is_tax_exempt |-> FALSE],
      [booking_id |-> "b2", date_of_birth |-> Adult, role |-> MEMBER,
       is_tax_exempt |-> FALSE] }

\* The calls: a stay of one night, a same-day check-out, a check-out before check-in.
CallInputs ==
    { <<"p1", "b1", Feb28, Feb29>>, <<"p1", "b1", Feb29, Mar01>>,
      <<"p1", "b1", Feb29, Feb29>>, <<"p1", "b1", Feb29, Feb28>> }

-----------------------------------------------------------------------------
(* The system: administrators create rules, guests register, taxes are calculated *)

\* At most MaxRules rules and MaxGuests guests are created.
MaxRules == 2
MaxGuests == 2

Init ==
    /\ tax_rules = {}
    /\ guests = {}
    /\ calls = [i \in {1} |-> Idle(None)]
    /\ answer = None
    /\ stored = <<>>
    /\ bookings = {}

CreateTaxRule ==
    /\ Cardinality(tax_rules) < MaxRules
    /\ \E in \in RuleInputs : create_tax_rule(in[1], in[2])
CreateGuest ==
    /\ Cardinality(guests) < MaxGuests
    /\ \E guest_data \in GuestInputs : create_guest(guest_data)
CallCalculate ==
    \E i \in DOMAIN calls, in \in CallInputs : Call(i, in[1], in[2], in[3], in[4])
RuleReturned == \E i \in DOMAIN calls : AfterGetActiveRule(i)
GuestsReturned == \E i \in DOMAIN calls : AfterGetByBookingId(i)

Next ==
    \/ CreateTaxRule
    \/ CreateGuest
    \/ CallCalculate
    \/ RuleReturned
    \/ GuestsReturned

Spec == Init /\ [][Next]_vars

-----------------------------------------------------------------------------
(* The calculator over fixed tables, as the unit tests run it: one rule of any  *)
(* configuration (or none), any roster, stays of 0, 1 and 2 nights             *)

CalcRuleData ==
    [valid_from : {Feb27}, valid_until : {None},
     base_rate_per_night : {250, 0},
     max_taxable_nights : {None, Some(0), Some(1), Some(3), Some(-1)},
     age_exemption_threshold : {None, Some(16)},
     exemption_rules : {EmptyDict, [bus_driver_ratio |-> 2],
                        [bus_driver_ratio |-> 0], [bus_driver_ratio |-> -1]}]

\* The guests of the rosters, numbered: two dates of birth, three roles, the flag.
GuestKind(k) ==
    [booking_id |-> "b1",
     date_of_birth |-> IF (k - 1) \div 6 = 0 THEN Adult ELSE Teen,
     role |-> CASE ((k - 1) \div 2) % 3 = 0 -> MEMBER
                [] ((k - 1) \div 2) % 3 = 1 -> BUS_DRIVER
                [] OTHER -> TOUR_GUIDE,
     is_tax_exempt |-> (k - 1) % 2 = 1]

\* The rosters of at most MaxGuests guests, one table per multiset of guests.
CalcRosters ==
    LET seqs == UNION {[1..n -> 1..12] : n \in 0..MaxGuests}
        sorted == {s \in seqs : \A i \in 1..(Len(s) - 1) : s[i] <= s[i + 1]}
    IN  {{GuestRow(i, GuestKind(s[i])) : i \in 1..Len(s)} : s \in sorted}

InitCalc ==
    /\ tax_rules \in {{}} \cup {{TaxRuleRow(1, "p1", rd)} : rd \in CalcRuleData}
    /\ guests \in CalcRosters
    /\ calls = [i \in {1} |-> Idle(None)]
    /\ answer = None
    /\ stored = <<>>
    /\ bookings = {}

CalcCallInputs ==
    { <<"p1", "b1", Feb29, Feb29>>, <<"p1", "b1", Feb29, Mar01>>,
      <<"p1", "b1", Feb29, Mar02>> }

CallCalc ==
    \E i \in DOMAIN calls, in \in CalcCallInputs : Call(i, in[1], in[2], in[3], in[4])

NextCalc ==
    \/ CallCalc
    \/ RuleReturned
    \/ GuestsReturned

SpecCalc == InitCalc /\ [][NextCalc]_vars

-----------------------------------------------------------------------------
(* Recalculation of one booking (check-in 2024-02-29) while rules are created: *)
(* two rules that share their valid_from, and a rule that starts later         *)

MaxHistRules == 3

HistRuleInputs ==
    { <<"p1", PlainRule(Feb28, None, 100)>>,
      <<"p1", PlainRule(Feb28, None, 300)>>,
      <<"p1", PlainRule(Mar01, None, 500)>> }

InitHist ==
    /\ tax_rules = {}
    /\ guests = {GuestRow(1, [booking_id |-> "b1", date_of_birth |-> Adult,
                              role |-> MEMBER, is_tax_exempt |-> FALSE])}
    /\ calls = [i \in {1} |-> Idle(None)]
    /\ answer = None
    /\ stored = <<>>
    /\ bookings = {}

CreateHistRule ==
    /\ Cardinality(tax_rules) < MaxHistRules
    /\ \E in \in HistRuleInputs : create_tax_rule(in[1], in[2])

CallHist == \E i \in DOMAIN calls : Call(i, "p1", "b1", Feb29, Mar01)

NextHist ==
    \/ CreateHistRule
    \/ CallHist
    \/ RuleReturned
    \/ GuestsReturned

SpecHist == InitHist /\ [][NextHist]_vars

-----------------------------------------------------------------------------
(* Ages: one guest of any date of birth, check-in on any date, the threshold  *)
(* unset (14) or 16                                                           *)

\* The valid dates of the given years, in January, February, March and December,
\* on the 1st, the 28th, the 29th and the 31st.
DatesOf(years) ==
    {d \in [year : years, month : {1, 2, 3, 12}, day : {1, 28, 29, 31}] : IsDate(d)}

BirthDates == DatesOf({2008, 2010})
CheckInDates == DatesOf({2024, 2026})

InitAge ==
    /\ \E t \in {None, Some(16)} :
          tax_rules = {TaxRuleRow(1, "p1",
              [PlainRule(Date(2020, 1, 1), None, 250) EXCEPT !.age_exemption_threshold = t])}
    /\ \E b \in BirthDates :
          guests = {GuestRow(1, [booking_id |-> "b1", date_of_birth |-> b,
                                 role |-> MEMBER, is_tax_exempt |-> FALSE])}
    /\ calls = [i \in {1} |-> Idle(None)]
    /\ answer = None
    /\ stored = <<>>
    /\ bookings = {}

CallAge ==
    \E i \in DOMAIN calls, d \in CheckInDates : Call(i, "p1", "b1", d, NextDay(d))

NextAge ==
    \/ CallAge
    \/ RuleReturned
    \/ GuestsReturned

SpecAge == InitAge /\ [][NextAge]_vars

-----------------------------------------------------------------------------
(* The rule store: rules are created and updated                               *)

MaxStoredRules == 3

\* Validity windows: a day, open-ended from the start, two days, open-ended later.
WindowInputs ==
    { <<Feb27, Some(Feb27)>>, <<Feb27, None>>, <<Feb29, Some(Mar01)>>, <<Mar02, None>> }

StoredRuleInputs ==
    {<<"p1", PlainRule(w[1], w[2], 250)>> : w \in WindowInputs}
        \cup {<<"p2", PlainRule(Feb28, None, 900)>>}

InitRules ==
    /\ tax_rules = {}
    /\ guests = {}
    /\ calls = [i \in {1} |-> Idle(None)]
    /\ answer = None
    /\ stored = <<>>
    /\ bookings = {}

CreateStoredRule ==
    /\ Cardinality(tax_rules) < MaxStoredRules
    /\ \E in \in StoredRuleInputs : create_tax_rule(in[1], in[2])

UpdateStoredRule ==
    \E r \in tax_rules, w \in WindowInputs :
        /\ <<r.valid_from, r.valid_until>> # w
        /\ update([r EXCEPT !.valid_from = w[1], !.valid_until = w[2]])

NextRules ==
    \/ CreateStoredRule
    \/ UpdateStoredRule

SpecRules == InitRules /\ [][NextRules]_vars

-----------------------------------------------------------------------------
(* The rules of a period are listed, over a table of up to MaxStoredRules rules *)

\* The periods asked for: two days, four days, one day, and a start after the end.
PeriodInputs ==
    { <<Feb28, Feb29>>, <<Feb28, Mar02>>, <<Mar01, Mar01>>, <<Mar01, Feb28>> }

InitPeriod ==
    /\ \E n \in 0..MaxStoredRules :
          \E created \in [1..n -> StoredRuleInputs] :
              tax_rules = {TaxRuleRow(i, created[i][1], created[i][2]) : i \in 1..n}
    /\ guests = {}
    /\ calls = [i \in {1} |-> Idle(None)]
    /\ answer = None
    /\ stored = <<>>
    /\ bookings = {}

ListHistoricalRules ==
    \E property_id \in {"p1", "p2"}, period \in PeriodInputs :
        GetHistoricalRules(property_id, period[1], period[2])

NextPeriod == ListHistoricalRules

SpecPeriod == InitPeriod /\ [][NextPeriod]_vars

-----------------------------------------------------------------------------
(* Reports over lists of up to MaxResults results of the calculator *)

MaxResults == 3

\* A guest of a booking, for the results.
Party(booking_id, date_of_birth, role) ==
    [booking_id |-> booking_id, date_of_birth |-> date_of_birth, role |-> role,
     is_tax_exempt |-> FALSE]

\* The results reported, each as the calculator returns it: two adults for a night at
\* 2.50; an adult for a night at 1.10; two adults and a minor for a night at 1.10; an
\* adult, a bus driver and a tour guide for two nights, one taxed, at 2.50 with a
\* driver per two guests; an adult and a guest flagged is_tax_exempt for a night at 2.50.
ResultInputs ==
    { Val(CalculateWith("b1", Feb29, Mar01, PlainRule(Feb27, None, 250),
              <<Party("b1", Adult, LEADER), Party("b1", Adult, MEMBER)>>).result),
      Val(CalculateWith("b2", Feb29, Mar01, PlainRule(Feb27, None, 110),
              <<Party("b2", Adult, LEADER)>>).result),
      Val(CalculateWith("b3", Feb29, Mar01, PlainRule(Feb27, None, 110),
              <<Party("b3", Adult, LEADER), Party("b3", Adult, MEMBER),
                Party("b3", Teen, MEMBER)>>).result),
      Val(CalculateWith("b4", Feb29, Mar02,
              [PlainRule(Feb27, None, 250) EXCEPT
                  !.max_taxable_nights = Some(1),
                  !.exemption_rules = [bus_driver_ratio |-> 2]],
              <<Party("b4", Adult, LEADER), Party("b4", Adult, BUS_DRIVER),
                Party("b4", Adult, TOUR_GUIDE)>>).result),
      Val(CalculateWith("b5", Feb29, Mar01, PlainRule(Feb27, None, 250),
              <<Party("b5", Adult, LEADER),
                [Party("b5", Adult, MEMBER) EXCEPT !.is_tax_exempt = TRUE]>>).result) }

\* The lists of results: any results, in any order, a result may come twice.
ResultLists == UNION {[1..n -> ResultInputs] : n \in 0..MaxResults}

InitReport ==
    /\ tax_rules = {}
    /\ guests = {}
    /\ calls = [i \in {1} |-> Idle(None)]
    /\ answer = None
    /\ stored \in ResultLists
    /\ bookings = {}

MonthlyReport ==
    \E month \in {2, 13} : GenerateMonthlyReport(2024, month, stored, Mar02)

QuarterlyReport ==
    \E quarter \in {1, 2, 3, 4} : GenerateQuarterlyReport(2024, quarter, stored, Mar02)

BookingDetailReport == GenerateBookingDetailReport(stored, Mar02)

NextReport ==
    \/ MonthlyReport
    \/ QuarterlyReport
    \/ BookingDetailReport

SpecReport == InitReport /\ [][NextReport]_vars

-----------------------------------------------------------------------------
(* The configuration of a stored rule is validated: rates, thresholds, caps and *)
(* ratios that are positive, zero, negative or unset                           *)

ValidatedRuleData ==
    [valid_from : {Feb27}, valid_until : {None},
     base_rate_per_night : {250, 0, -100},
     max_taxable_nights : {None, Some(5), Some(0), Some(-1)},
     age_exemption_threshold : {None, Some(14), Some(18), Some(19), Some(0), Some(-1)},
     exemption_rules : {EmptyDict, [bus_driver_ratio |-> 25],
                        [bus_driver_ratio |-> 0], [bus_driver_ratio |-> -1]}]

InitValidate ==
    /\ tax_rules \in {{TaxRuleRow(1, "p1", rd)} : rd \in ValidatedRuleData}
    /\ guests = {}
    /\ calls = [i \in {1} |-> Idle(None)]
    /\ answer = None
    /\ stored = <<>>
    /\ bookings = {}

ValidateStoredRule == \E tax_rule \in tax_rules : ValidateTaxConfiguration(tax_rule)

NextValidate == ValidateStoredRule

SpecValidate == InitValidate /\ [][NextValidate]_vars

-----------------------------------------------------------------------------
(* Thresholds: two guests of any of four ages under a rule whose threshold is  *)
(* unset, 0, 1, 14 or 16                                                       *)

\* Born in 2023: aged 0 on 2024-02-29.
Infant == Date(2023, 6, 15)
\* Aged 13 on 2024-02-29, 14 the day after.
Child == Date(2010, 3, 1)

ThresholdInputs == {None, Some(0), Some(1), Some(14), Some(16)}

InitThreshold ==
    /\ \E t \in ThresholdInputs :
          tax_rules = {TaxRuleRow(1, "p1",
              [PlainRule(Date(2020, 1, 1), None, 250) EXCEPT !.age_exemption_threshold = t])}
    /\ \E b1, b2 \in {Adult, Teen, Child, Infant} :
          guests = {GuestRow(1, [booking_id |-> "b1", date_of_birth |-> b1,
                                 role |-> MEMBER, is_tax_exempt |-> FALSE]),
                    GuestRow(2, [booking_id |-> "b1", date_of_birth |-> b2,
                                 role |-> MEMBER, is_tax_exempt |-> FALSE])}
    /\ calls = [i \in {1} |-> Idle(None)]
    /\ answer = None
    /\ stored = <<>>
    /\ bookings = {}

CallThreshold ==
    \E i \in DOMAIN calls, d \in {Feb29, Mar01} : Call(i, "p1", "b1", d, NextDay(d))

NextThreshold ==
    \/ CallThreshold
    \/ RuleReturned
    \/ GuestsReturned

SpecThreshold == InitThreshold /\ [][NextThreshold]_vars

-----------------------------------------------------------------------------
(* Two invocations for two bookings of a property run interleaved at their     *)
(* awaits, over fixed tables: a rule until 2024-02-28 and another from         *)
(* 2024-02-29 on                                                               *)

ConcRules ==
    { TaxRuleRow(1, "p1", PlainRule(Feb27, Some(Feb28), 400)),
      TaxRuleRow(2, "p1", [PlainRule(Feb29, None, 250) EXCEPT
                              !.max_taxable_nights = Some(1)]) }

\* The rosters of booking b1 and of booking b2.
ConcRosters(booking_id) ==
    IF booking_id = "b1"
    THEN { {GuestRow(1, Party("b1", Adult, LEADER))},
           {GuestRow(1, Party("b1", Adult, LEADER)), GuestRow(2, Party("b1", Teen, MEMBER))} }
    ELSE { {GuestRow(3, Party("b2", Adult, TOUR_GUIDE))},
           {GuestRow(3, Party("b2", Adult, LEADER)),
            GuestRow(4, Party("b2", Adult, MEMBER))} }

InitConc ==
    /\ tax_rules = ConcRules
    /\ \E r1 \in ConcRosters("b1"), r2 \in ConcRosters("b2") : guests = r1 \cup r2
    /\ calls = [i \in {1, 2} |-> Idle(None)]
    /\ answer = None
    /\ stored = <<>>
    /\ bookings = {}

\* Invocation 1 calculates booking b1, invocation 2 booking b2.
CallConc ==
    \E i \in DOMAIN calls, d \in {Feb28, Feb29} :
        Call(i, "p1", IF i = 1 THEN "b1" ELSE "b2", d, Mar01)

NextConc ==
    \/ CallConc
    \/ RuleReturned
    \/ GuestsReturned

SpecConc == InitConc /\ [][NextConc]_vars

-----------------------------------------------------------------------------
(* The guests of a booking are flagged by GuestService, before or between the  *)
(* calculations of its tax: two unflagged guests of six kinds, a rule whose    *)
(* threshold is unset, 10, 14 or 16                                            *)

\* Aged 12 on 2024-02-29.
Preteen == Date(2011, 6, 15)

FlagGuestKinds ==
    { Party("b1", Adult, MEMBER), Party("b1", Teen, MEMBER), Party("b1", Child, MEMBER),
      Party("b1", Preteen, MEMBER),
      Party("b1", Adult, BUS_DRIVER), Party("b1", Adult, TOUR_GUIDE) }

InitFlags ==
    /\ \E t \in {None, Some(10), Some(14), Some(16)} :
          tax_rules = {TaxRuleRow(1, "p1",
              [PlainRule(Date(2020, 1, 1), None, 250) EXCEPT !.age_exemption_threshold = t])}
    /\ \E g1, g2 \in FlagGuestKinds : guests = {GuestRow(1, g1), GuestRow(2, g2)}
    /\ calls = [i \in {1} |-> Idle(None)]
    /\ answer = None
    /\ stored = <<>>
    /\ bookings = {}

\* The check-in of booking b1.
FlagsCheckIn == Feb29

CalculateTaxExemptions ==
    calculate_tax_exemptions("b1", FlagsCheckIn, GuestServiceAgeThreshold)

CallFlags ==
    \E i \in DOMAIN calls : Call(i, "p1", "b1", FlagsCheckIn, NextDay(FlagsCheckIn))

NextFlags ==
    \/ CalculateTaxExemptions
    \/ CallFlags
    \/ RuleReturned
    \/ GuestsReturned

SpecFlags == InitFlags /\ [][NextFlags]_vars

-----------------------------------------------------------------------------
(* The status of a booking under the operations of BookingService: a booking   *)
(* that expects one or two guests and has none, a member, a leader, or both    *)

BookingRosters ==
    { {},
      {GuestRow(1, Party("b1", Adult, MEMBER))},
      {GuestRow(1, Party("b1", Adult, LEADER))},
      {GuestRow(1, Party("b1", Adult, LEADER)), GuestRow(2, Party("b1", Adult, MEMBER))} }

InitBooking ==
    /\ tax_rules = {}
    /\ guests \in BookingRosters
    /\ calls = [i \in {1} |-> Idle(None)]
    /\ answer = None
    /\ stored = <<>>
    /\ \E expected_guests \in {1, 2} : bookings = {BookingRow("b1", "p1", expected_guests)}

\* The bookings asked for: the booking of the property, and one that it has not.
BookingIds == {"b1", "b2"}

MarkInProgress == \E booking_id \in BookingIds : mark_in_progress("p1", booking_id)
MarkComplete == \E booking_id \in BookingIds : mark_complete("p1", booking_id)
MarkSynced == \E booking_id \in BookingIds : mark_synced("p1", booking_id)
MarkError == \E booking_id \in BookingIds : mark_error("p1", booking_id)

NextBooking ==
    \/ MarkInProgress
    \/ MarkComplete
    \/ MarkSynced
    \/ MarkError

SpecBooking == InitBooking /\ [][NextBooking]_vars

-----------------------------------------------------------------------------
(* The guests of two bookings are entered: leaders, members one by one and     *)
(* lists of members, of any role                                               *)

\* At most MaxEnteredGuests guests are entered.
MaxEnteredGuests == 3

\* The data of a guest as the schema accepts them: a role is required, any role of
\* GuestRole is valid.
GuestDataInputs == [date_of_birth : {Adult}, role : GuestRole]

InitGuests ==
    /\ tax_rules = {}
    /\ guests = {}
    /\ calls = [i \in {1} |-> Idle(None)]
    /\ answer = None
    /\ stored = <<>>
    /\ bookings = {}

CreateGroupLeader ==
    /\ Cardinality(guests) < MaxEnteredGuests
    /\ \E booking_id \in {"b1", "b2"}, leader_data \in GuestDataInputs :
          create_group_leader(booking_id, leader_data)

CreateGroupMember ==
    /\ Cardinality(guests) < MaxEnteredGuests
    /\ \E booking_id \in {"b1", "b2"}, member_data \in GuestDataInputs :
          create_group_member(booking_id, member_data)

BulkCreateMembers ==
    \E booking_id \in {"b1", "b2"}, n \in 0..2 :
        /\ Cardinality(guests) + n <= MaxEnteredGuests
        /\ \E members_data \in [1..n -> GuestDataInputs] :
              bulk_create_members(booking_id, members_data)

NextGuests ==
    \/ CreateGroupLeader
    \/ CreateGroupMember
    \/ BulkCreateMembers

SpecGuests == InitGuests /\ [][NextGuests]_vars

-----------------------------------------------------------------------------
(* Properties *)

\* What invocation i returned last, when it has returned a TaxCalculationResult.
HasResult(i) == calls[i].last # None /\ Val(calls[i].last).result # None
LastRun(i) == Val(calls[i].last)
LastResult(i) == Val(LastRun(i).result)

\* C1: the total tax of every result is its rate times its taxable guests times its
\* taxable nights, to the cent, and its rate is the rate of the rule that the lookup
\* for the check-in date returned.
C1_TotalTaxIsProduct ==
    \A i \in DOMAIN calls :
        HasResult(i) =>
            LET r == LastResult(i)
            IN  /\ r.total_tax_amount
                     = r.base_rate_per_night * r.taxable_guests * r.taxable_nights
                /\ r.base_rate_per_night
                     = Val(LastRun(i).tax_rule).base_rate_per_night

\* A stay capped to fewer nights than it lasts, with an exempt and a taxable guest.
C1_Witness ==
    \E i \in DOMAIN calls :
        /\ HasResult(i)
        /\ LastResult(i).base_rate_per_night = 250
        /\ LastResult(i).taxable_guests = 1
        /\ LastResult(i).exempt_guests = 1
        /\ LastResult(i).total_nights = 2
        /\ LastResult(i).taxable_nights = 1
        /\ LastResult(i).total_tax_amount = 250

\* C2: every result counts all the guests of the booking, splits them into exempt and
\* taxable, and its exempt guests are the minors, the allowed drivers, the guides and
\* the others of its breakdown.
C2_ExemptionPartition ==
    \A i \in DOMAIN calls :
        HasResult(i) =>
            LET r == LastResult(i)
                b == r.exemption_breakdown
            IN  /\ r.total_guests
                     = Cardinality({g \in guests : g.booking_id = LastRun(i).booking_id})
                /\ r.exempt_guests + r.taxable_guests = r.total_guests
                /\ r.exempt_guests = b.exempt_minors + b.exempt_drivers_allowed
                                      + b.exempt_guides + b.exempt_other
                /\ b.total_exempt = r.exempt_guests

\* A minor and a driver who is not allowed: one exempt guest, one taxable.
C2_Witness ==
    \E i \in DOMAIN calls :
        /\ HasResult(i)
        /\ LastResult(i).total_guests = 2
        /\ LastResult(i).exemption_breakdown.exempt_minors = 1
        /\ LastResult(i).exemption_breakdown.exempt_drivers_count = 1
        /\ LastResult(i).exemption_breakdown.exempt_drivers_allowed = 0
        /\ LastResult(i).exempt_guests = 1
        /\ LastResult(i).taxable_guests = 1

\* q is n // d: the floor of the quotient, d # 0.
IsFloorQuotient(q, n, d) ==
    \/ d > 0 /\ q * d <= n /\ n < q * d + d
    \/ d < 0 /\ q * d >= n /\ n > q * d + d

\* The age of a guest on a date: the birthdays the guest has had by then.
BirthdaysBy(birth_date, on) ==
    Cardinality({k \in 1..120 :
        LET b == Date(birth_date.year + k, birth_date.month, birth_date.day)
        IN  b = on \/ DateLT(b, on)})

\* C3: the exempt drivers of every result are min(drivers counted, total_guests //
\* ratio), the ratio being the rule's bus_driver_ratio or 25 without one: never more
\* than the drivers counted nor than the quotient; the drivers beyond are taxable; the
\* breakdown reports the drivers counted (the guests with the role who are not minors)
\* and the drivers allowed.
C3_DriverRatio ==
    \A i \in DOMAIN calls :
        HasResult(i) =>
            LET run == LastRun(i)
                r == LastResult(i)
                b == r.exemption_breakdown
                rules == Val(run.tax_rule).exemption_rules
                ratio == IF "bus_driver_ratio" \in DOMAIN rules
                         THEN rules.bus_driver_ratio ELSE 25
                counted == {g \in run.roster :
                    /\ g.role = BUS_DRIVER
                    /\ BirthdaysBy(g.date_of_birth, run.check_in_date)
                          >= b.exempt_minors_threshold}
            IN  /\ b.exempt_drivers_ratio = ratio
                /\ b.exempt_drivers_count = Cardinality(counted)
                /\ \E q \in -(r.total_guests + 1)..(r.total_guests + 1) :
                      /\ IsFloorQuotient(q, r.total_guests, ratio)
                      /\ b.exempt_drivers_allowed <= q
                      /\ b.exempt_drivers_allowed <= b.exempt_drivers_count
                      /\ b.exempt_drivers_allowed \in {q, b.exempt_drivers_count}
                /\ r.taxable_guests >= b.exempt_drivers_count - b.exempt_drivers_allowed

\* Two drivers in a party of two with ratio 2: one is allowed, the other is taxable.
C3_Witness ==
    \E i \in DOMAIN calls :
        /\ HasResult(i)
        /\ LastResult(i).exemption_breakdown.exempt_drivers_ratio = 2
        /\ LastResult(i).exemption_breakdown.exempt_drivers_count = 2
        /\ LastResult(i).exemption_breakdown.exempt_drivers_allowed = 1
        /\ LastResult(i).taxable_guests = 1

\* C4: the age of a guest is counted on the check-in date, in calendar years (the
\* difference of the years, less one when the month and day of check-in come before
\* those of the birth: the birthdays the guest has had). The minors of a result are
\* the guests whose age is below the threshold applied: a guest whose age equals it
\* is taxable, a guest who reaches it the day after check-in is exempt.
C4_AgeOnCheckIn ==
    \A i \in DOMAIN calls :
        HasResult(i) =>
            LET run == LastRun(i)
                r == LastResult(i)
                on == run.check_in_date
                threshold == r.exemption_breakdown.exempt_minors_threshold
                age(g) ==
                    (on.year - g.date_of_birth.year)
                    - (IF \/ on.month < g.date_of_birth.month
                          \/ /\ on.month = g.date_of_birth.month
                             /\ on.day < g.date_of_birth.day
                       THEN 1 ELSE 0)
                reaches(g) ==
                    Date(g.date_of_birth.year + threshold, g.date_of_birth.month,
                         g.date_of_birth.day)
            IN  /\ \A g \in run.roster :
                      /\ _calculate_age(g.date_of_birth, on) = age(g)
                      /\ age(g) = BirthdaysBy(g.date_of_birth, on)
                /\ r.exemption_breakdown.exempt_minors
                     = Cardinality({g \in run.roster : age(g) < threshold})
                /\ \A g \in run.roster :
                      /\ age(g) = threshold /\ run.roster = {g}
                            => r.exempt_guests = 0 /\ r.taxable_guests = 1
                      /\ reaches(g) = NextDay(on) /\ run.roster = {g}
                            => r.exempt_guests = 1 /\ r.taxable_guests = 0

\* Born on 2008-02-29, check-in on 2024-02-28 with threshold 16: the guest turns 16
\* on the day of check-out and is exempt.
C4_Witness ==
    \E i \in DOMAIN calls :
        /\ HasResult(i)
        /\ LastRun(i).check_in_date = Feb28
        /\ LastRun(i).check_out_date = Feb29
        /\ \E g \in LastRun(i).roster : g.date_of_birth = Date(2008, 2, 29)
        /\ LastResult(i).exemption_breakdown.exempt_minors_threshold = 16
        /\ LastResult(i).exemption_breakdown.exempt_minors = 1
        /\ LastResult(i).taxable_guests = 0

\* The date n days after d.
RECURSIVE AddDays(_, _)
AddDays(d, n) == IF n = 0 THEN d ELSE AddDays(NextDay(d), n - 1)

\* C5: the total nights of every result are the days from check-in to check-out, at
\* least one; the taxable nights never exceed them, and equal them when the rule has
\* no cap or a cap that is not below them.
C5_NightCap ==
    \A i \in DOMAIN calls :
        HasResult(i) =>
            LET run == LastRun(i)
                r == LastResult(i)
                cap == Val(run.tax_rule).max_taxable_nights
            IN  /\ r.total_nights >= 1
                /\ AddDays(run.check_in_date, r.total_nights) = run.check_out_date
                /\ r.taxable_nights <= r.total_nights
                /\ (cap = None \/ Val(cap) >= r.total_nights)
                      => r.taxable_nights = r.total_nights

\* A stay of one night under a cap of three nights: one taxable night.
C5_Witness ==
    \E i \in DOMAIN calls :
        /\ HasResult(i)
        /\ Val(LastRun(i).tax_rule).max_taxable_nights = Some(3)
        /\ LastResult(i).total_nights = 1
        /\ LastResult(i).taxable_nights = 1

\* C6 (as claimed): the total tax of every result is >= 0, and 0 only when the result
\* has no taxable guest or no taxable night.
C6_NonNegativeTax ==
    \A i \in DOMAIN calls :
        HasResult(i) =>
            LET r == LastResult(i)
            IN  /\ r.total_tax_amount >= 0
                /\ r.total_tax_amount = 0
                      => (r.taxable_guests = 0 \/ r.taxable_nights = 0)

\* Invocation i gets its rule, or its guests, in this step.
RuleStep(i) == calls[i].pc = "get_active_rule" /\ calls'[i].pc # "get_active_rule"
GuestStep(i) == calls[i].pc = "get_by_booking_id" /\ calls'[i].pc # "get_by_booking_id"

\* The rules of a property whose validity window holds a date, by day numbers.
EffectiveOn(property_id, d) ==
    {r \in tax_rules :
        /\ r.property_id = property_id
        /\ toordinal(r.valid_from) <= toordinal(d)
        /\ (r.valid_until = None \/ toordinal(Val(r.valid_until)) >= toordinal(d))}

\* C7: a call ends with TaxCalculationError and no result when no rule is effective on
\* the check-in date, when the booking has no guests, and when the check-out date is
\* not after the check-in date.
C7_PreconditionsRaise ==
    [][\A i \in DOMAIN calls :
          LET c == calls[i]
              end == Val(calls'[i].last)
              rejected == /\ calls'[i].pc = "idle"
                          /\ end.raised = "TaxCalculationError"
                          /\ end.result = None
          IN  /\ (RuleStep(i) /\ EffectiveOn(c.tenant_id, Val(c.check_in_date)) = {})
                    => rejected
              /\ (GuestStep(i) /\ ~ \E g \in guests : g.booking_id = c.booking_id)
                    => rejected
              /\ (GuestStep(i) /\ DateLE(Val(c.check_out_date), Val(c.check_in_date)))
                    => rejected
      ]_vars

\* A same-day check-out of a booking with a rule and guests was rejected.
C7_Witness ==
    \E i \in DOMAIN calls :
        /\ calls[i].last # None
        /\ LastRun(i).raised = "TaxCalculationError"
        /\ LastRun(i).result = None
        /\ LastRun(i).tax_rule # None
        /\ LastRun(i).roster # {}
        /\ LastRun(i).check_out_date = LastRun(i).check_in_date

\* C8: no step of a call changes a guest or a rule, and a call made again with the
\* same arguments, that finds the same rule and the same guests (in whatever order
\* the database returns them), ends as the call before it did, with an equal result.
C8_SameInputsSameResult ==
    [][\A i \in DOMAIN calls :
          /\ calls'[i] # calls[i] => guests' = guests /\ tax_rules' = tax_rules
          /\ (GuestStep(i) /\ calls[i].last # None) =>
                LET before == LastRun(i)
                    after == Val(calls'[i].last)
                IN  ( /\ after.tenant_id = before.tenant_id
                      /\ after.booking_id = before.booking_id
                      /\ after.check_in_date = before.check_in_date
                      /\ after.check_out_date = before.check_out_date
                      /\ after.tax_rule = before.tax_rule
                      /\ after.roster = before.roster )
                    => after.raised = before.raised /\ after.result = before.result
      ]_vars

\* A call with a minor and a tour guide has returned a result, and the same call is
\* awaiting the same guests again.
C8_Witness ==
    \E i \in DOMAIN calls :
        /\ HasResult(i)
        /\ LastResult(i).exemption_breakdown.exempt_minors = 1
        /\ LastResult(i).exemption_breakdown.exempt_guides = 1
        /\ calls[i].pc = "get_by_booking_id"
        /\ calls[i].check_in_date = Some(LastRun(i).check_in_date)
        /\ calls[i].check_out_date = Some(LastRun(i).check_out_date)
        /\ calls[i].tax_rule = LastRun(i).tax_rule

C10_LaterRulesChangeNothing ==
    [][\A i \in DOMAIN calls :
          (calls[i].pc # "idle" /\ calls'[i].pc = "idle" /\ calls[i].last # None) =>
              LET before == LastRun(i)
                  after == Val(calls'[i].last)
                  created == after.seen \ before.seen
              IN  ( /\ after.tenant_id = before.tenant_id
                    /\ after.booking_id = before.booking_id
                    /\ after.check_in_date = before.check_in_date
                    /\ after.check_out_date = before.check_out_date
                    /\ before.seen \subseteq after.seen
                    /\ created # {}
                    /\ \A r \in created : DateLT(after.check_in_date, r.valid_from) )
                  => after.raised = before.raised /\ after.result = before.result
      ]_vars

\* The dates of the five days from 2024-02-27 to 2024-03-02.
FiveDays == {Feb27, Feb28, Feb29, Mar01, Mar02}

\* C11 (as claimed): whatever rules were created and updated, on every date at most
\* one rule of a property has the date in its validity window.
C11_NoOverlap ==
    \A property_id \in {"p1", "p2"}, d \in FiveDays :
        Cardinality(EffectiveOn(property_id, d)) <= 1

\* The rules of a property that get_historical_rules is to return for a period.
IntersectingRules(rows, property_id, start_date, end_date) ==
    {r \in rows :
        /\ r.property_id = property_id
        /\ toordinal(r.valid_from) <= toordinal(end_date)
        /\ (r.valid_until = None \/ toordinal(Val(r.valid_until)) >= toordinal(start_date))}

\* Rule r is in force on a day of the period from start_date to end_date.
SharesADay(r, start_date, end_date) ==
    \E n \in toordinal(start_date)..toordinal(end_date) :
        /\ toordinal(r.valid_from) <= n
        /\ (r.valid_until = None \/ n <= toordinal(Val(r.valid_until)))

Reported(op) == answer # None /\ Val(answer).op = op

\* x[1] + ... + x[n], counted from the last.
RECURSIVE TotalOf(_, _)
TotalOf(x, n) == IF n = 0 THEN 0 ELSE TotalOf(x, n - 1) + x[n]

\* The float `f` is the amount of `cents` cents, exactly.
IsAmount(f, cents) == IsFloat(cents, 100) /\ f = FloatOfRatio(cents, 100)

\* C12 (as claimed): the monthly report counts the results, sums their guests, taxable
\* guests, exempt guests and tax amounts, and sums the guest-nights (nights x guests)
\* and the taxable guest-nights (taxable nights x taxable guests) of the results.
C12_MonthlyTotals ==
    Reported("generate_monthly_report") =>
        LET rs == Val(answer).results
            n == Len(rs)
            summary == Val(answer).value.summary
        IN  /\ summary.total_bookings = n
            /\ summary.total_guests = TotalOf([i \in 1..n |-> rs[i].total_guests], n)
            /\ summary.total_taxable_guests
                 = TotalOf([i \in 1..n |-> rs[i].taxable_guests], n)
            /\ summary.total_exempt_guests
                 = TotalOf([i \in 1..n |-> rs[i].exempt_guests], n)
            /\ summary.total_nights
                 = TotalOf([i \in 1..n |-> rs[i].total_nights * rs[i].total_guests], n)
            /\ summary.total_taxable_nights
                 = TotalOf([i \in 1..n |-> rs[i].taxable_nights * rs[i].taxable_guests], n)
            /\ IsAmount(summary.total_tax_collected,
                        TotalOf([i \in 1..n |-> rs[i].total_tax_amount], n))

\* The results of a list at the positions in S, in the order of the list.
RECURSIVE Pick(_, _, _)
Pick(rs, S, i) ==
    IF i > Len(rs) THEN <<>>
    ELSE (IF i \in S THEN <<rs[i]>> ELSE <<>>) \o Pick(rs, S, i + 1)

\* The total tax of the monthly report over a list of results.
MonthlyTax(rs) == generate_monthly_report(2024, 2, rs, Mar02).summary.total_tax_collected

\* C13 (as claimed): the total tax of the monthly report over a list is the sum of the
\* total taxes of the monthly reports over any two groups that the list is split
\* into, and is the same in whatever order the results are listed.
C13_ReportAdditivity ==
    Reported("generate_monthly_report") =>
        LET rs == Val(answer).results
            total == Val(answer).value.summary.total_tax_collected
        IN  /\ \A S \in SUBSET DOMAIN rs :
                  total = FloatAdd(MonthlyTax(Pick(rs, S, 1)),
                                   MonthlyTax(Pick(rs, DOMAIN rs \ S, 1)))
            /\ \A p \in Permutations(DOMAIN rs) :
                  total = MonthlyTax([i \in DOMAIN rs |-> rs[p[i]]])

\* C14: over an empty list each of the three generators returns its report: the
\* monthly report with no booking, every count 0, total tax 0.0 and averages 0, the
\* quarterly report with no booking and total tax 0.0, the detailed report with no row.
C14_EmptyReports ==
    (answer # None /\ Val(answer).results = <<>>) =>
        LET report == Val(answer).value
        IN  /\ Reported("generate_monthly_report") =>
                  /\ report.report_type = "monthly"
                  /\ report.summary =
                        [total_bookings |-> 0, total_guests |-> 0,
                         total_taxable_guests |-> 0, total_exempt_guests |-> 0,
                         total_nights |-> 0, total_taxable_nights |-> 0,
                         total_tax_collected |-> Zero]
                  /\ report.exemptions =
                        [minors |-> 0, bus_drivers |-> 0, tour_guides |-> 0, total |-> 0]
                  /\ report.average_per_booking = [guests |-> 0, tax |-> 0]
            /\ Reported("generate_quarterly_report") =>
                  /\ report.report_type = "quarterly"
                  /\ report.summary = [total_bookings |-> 0, total_tax_collected |-> Zero]
            /\ Reported("generate_booking_detail_report") =>
                  /\ report.report_type = "detailed"
                  /\ report.bookings = <<>>

\* The monthly report over no result was returned.
C14_Witness ==
    /\ Reported("generate_monthly_report")
    /\ Val(answer).results = <<>>
    /\ Val(answer).value.summary.total_bookings = 0

\* C15 (as claimed): the quarterly report of quarter 1 to 4 over a list carries the
\* summary and the exemption sums of the monthly report over that list, and its
\* period lists the three months of the quarter.
C15_QuarterlyAsMonthly ==
    Reported("generate_quarterly_report") =>
        LET a == Val(answer)
            monthly == generate_monthly_report(a.year, 1, a.results, Mar02)
        IN  /\ a.value.summary = monthly.summary
            /\ "exemptions" \in DOMAIN a.value
            /\ a.value.exemptions = monthly.exemptions
            /\ a.value.period.months
                 = [k \in 1..3 |-> _get_month_name(3 * (a.quarter - 1) + k)]

\* C18 (as claimed): the detailed report has a row for each result, in the order of
\* the list, and the row carries the booking id, the guests, taxable guests, exempt
\* guests, nights, taxable nights, rate, tax amount and exemption breakdown of its
\* result, unchanged.
C18_DetailRows ==
    Reported("generate_booking_detail_report") =>
        LET rs == Val(answer).results
            rows == Val(answer).value.bookings
        IN  /\ Len(rows) = Len(rs)
            /\ \A i \in DOMAIN rs :
                  /\ rows[i].booking_id = Str(rs[i].booking_id)
                  /\ rows[i].guests = rs[i].total_guests
                  /\ rows[i].taxable_guests = rs[i].taxable_guests
                  /\ rows[i].exempt_guests = rs[i].exempt_guests
                  /\ rows[i].nights = rs[i].total_nights
                  /\ rows[i].taxable_nights = rs[i].taxable_nights
                  /\ rows[i].exemptions = rs[i].exemption_breakdown
                  /\ IsAmount(rows[i].rate_per_night, rs[i].base_rate_per_night)
                  /\ IsAmount(rows[i].tax_amount, rs[i].total_tax_amount)

\* C16 (as claimed): the validation returns a list that holds a warning for each of:
\* a base rate <= 0, a negative age threshold, an age threshold above 18, a cap on
\* nights that is set and <= 0, a bus driver ratio that is zero or negative; and
\* the list is empty when none of these holds.
C16_ValidationWarnings ==
    Reported("validate_tax_configuration") =>
        LET tax_rule == Val(answer).tax_rule
            warnings == Val(answer).value
            warned == {warnings[i] : i \in DOMAIN warnings}
            threshold == tax_rule.age_exemption_threshold
            max_nights == tax_rule.max_taxable_nights
            rate_wrong == tax_rule.base_rate_per_night <= 0
            threshold_negative == threshold # None /\ Val(threshold) < 0
            threshold_high == threshold # None /\ Val(threshold) > 18
            cap_wrong == max_nights # None /\ Val(max_nights) <= 0
            ratio_wrong == /\ "bus_driver_ratio" \in DOMAIN tax_rule.exemption_rules
                           /\ tax_rule.exemption_rules.bus_driver_ratio <= 0
        IN  /\ rate_wrong => "Base rate must be greater than 0" \in warned
            /\ threshold_negative
                 => "Age exemption threshold cannot be negative" \in warned
            /\ threshold_high
                 => "Age exemption threshold unusually high (> 18 years)" \in warned
            /\ cap_wrong
                 => "Max taxable nights must be greater than 0 if set" \in warned
            /\ ratio_wrong => "Bus driver ratio must be greater than 0" \in warned
            /\ ~(rate_wrong \/ threshold_negative \/ threshold_high \/ cap_wrong
                  \/ ratio_wrong) => warnings = <<>>

\* C19 (as claimed): in every result the guests flagged is_tax_exempt are all among
\* the exempt guests and none is among the taxable guests, whatever their age or
\* role; the flagged guests who are neither minors nor drivers nor guides are the
\* exempt_other of the breakdown.
C19_FlaggedGuestsExempt ==
    \A i \in DOMAIN calls :
        HasResult(i) =>
            LET run == LastRun(i)
                r == LastResult(i)
                b == r.exemption_breakdown
                flagged == {g \in run.roster : g.is_tax_exempt}
                other == {g \in flagged :
                    /\ BirthdaysBy(g.date_of_birth, run.check_in_date)
                          >= b.exempt_minors_threshold
                    /\ g.role \notin {BUS_DRIVER, TOUR_GUIDE}}
            IN  /\ r.exempt_guests >= Cardinality(flagged)
                /\ r.taxable_guests <= Cardinality(run.roster \ flagged)
                /\ b.exempt_other = Cardinality(other)

\* C20 (as claimed): no result holds a negative value: its taxable nights are >= 0,
\* its exempt guests and its taxable guests lie between 0 and its total guests, and
\* every count of its exemption breakdown is >= 0, whatever rule was in force.
C20_NoNegativeValue ==
    \A i \in DOMAIN calls :
        HasResult(i) =>
            LET r == LastResult(i)
                b == r.exemption_breakdown
            IN  /\ r.taxable_nights >= 0
                /\ 0 <= r.exempt_guests /\ r.exempt_guests <= r.total_guests
                /\ 0 <= r.taxable_guests /\ r.taxable_guests <= r.total_guests
                /\ b.total_exempt >= 0
                /\ b.exempt_minors >= 0
                /\ b.exempt_drivers_count >= 0
                /\ b.exempt_drivers_allowed >= 0
                /\ b.exempt_guides >= 0
                /\ b.exempt_other >= 0

\* C21 (as claimed): in every result, when the rule's max_taxable_nights is set, to
\* any value, the taxable nights are min(total_nights, max_taxable_nights); when it
\* is unset the taxable nights are the total nights.
C21_CapWheneverSet ==
    \A i \in DOMAIN calls :
        HasResult(i) =>
            LET r == LastResult(i)
                max_taxable_nights == Val(LastRun(i).tax_rule).max_taxable_nights
            IN  IF max_taxable_nights # None
                THEN /\ r.taxable_nights <= r.total_nights
                     /\ r.taxable_nights <= Val(max_taxable_nights)
                     /\ r.taxable_nights \in {r.total_nights, Val(max_taxable_nights)}
                ELSE r.taxable_nights = r.total_nights

\* C22 (as claimed): the threshold applied, and reported as exempt_minors_threshold,
\* is the rule's age_exemption_threshold whenever it is set, 0 included, and 14 only
\* when it is unset; the exempt minors of a result are the guests whose age on
\* check-in is below that threshold.
C22_ThresholdWheneverSet ==
    \A i \in DOMAIN calls :
        HasResult(i) =>
            LET run == LastRun(i)
                b == LastResult(i).exemption_breakdown
                configured == Val(run.tax_rule).age_exemption_threshold
                threshold == IF configured # None THEN Val(configured) ELSE 14
            IN  /\ b.exempt_minors_threshold = threshold
                /\ b.exempt_minors = Cardinality({g \in run.roster :
                       BirthdaysBy(g.date_of_birth, run.check_in_date) < threshold})

\* C23: every guest of a result is classified once, by the first category that
\* matches: a minor by age whatever the role or the flag, else a driver by role, else
\* a guide by role, else an other by the flag, else taxable. The guides are all
\* exempt, and the four counts of the breakdown sum to at most the guests.
C23_ClassifiedOnce ==
    \A i \in DOMAIN calls :
        HasResult(i) =>
            LET run == LastRun(i)
                r == LastResult(i)
                b == r.exemption_breakdown
                minors == {g \in run.roster :
                    BirthdaysBy(g.date_of_birth, run.check_in_date)
                        < b.exempt_minors_threshold}
                drivers == {g \in run.roster \ minors : g.role = BUS_DRIVER}
                guides == {g \in run.roster \ (minors \cup drivers) :
                              g.role = TOUR_GUIDE}
                other == {g \in run.roster \ (minors \cup drivers \cup guides) :
                             g.is_tax_exempt}
            IN  /\ b.exempt_minors = Cardinality(minors)
                /\ b.exempt_drivers_count = Cardinality(drivers)
                /\ b.exempt_guides = Cardinality(guides)
                /\ b.exempt_other = Cardinality(other)
                /\ r.exempt_guests - b.exempt_minors - b.exempt_drivers_allowed
                       - b.exempt_other = Cardinality(guides)
                /\ b.exempt_minors + b.exempt_drivers_count + b.exempt_guides
                       + b.exempt_other <= r.total_guests

\* A minor with the driver's role and a flagged guide: one minor, no driver, one guide,
\* no other.
C23_Witness ==
    \E i \in DOMAIN calls :
        /\ HasResult(i)
        /\ \E g \in LastRun(i).roster :
              g.role = BUS_DRIVER /\ g.date_of_birth = Teen
        /\ \E g \in LastRun(i).roster :
              g.role = TOUR_GUIDE /\ g.is_tax_exempt /\ g.date_of_birth = Adult
        /\ LastResult(i).exemption_breakdown.exempt_minors = 1
        /\ LastResult(i).exemption_breakdown.exempt_drivers_count = 0
        /\ LastResult(i).exemption_breakdown.exempt_guides = 1
        /\ LastResult(i).exemption_breakdown.exempt_other = 0

\* C24 (as claimed): in every monthly report over results of the calculator, the
\* exemption section sums the exempt minors, the allowed drivers and the exempt guides
\* of the results, and its total is the sum of these three.
C24_ExemptionSection ==
    Reported("generate_monthly_report") =>
        LET rs == Val(answer).results
            n == Len(rs)
            exemptions == Val(answer).value.exemptions
        IN  /\ exemptions.minors
                 = TotalOf([i \in 1..n |-> rs[i].exemption_breakdown.exempt_minors], n)
            /\ exemptions.bus_drivers
                 = TotalOf([i \in 1..n |->
                              rs[i].exemption_breakdown.exempt_drivers_allowed], n)
            /\ exemptions.tour_guides
                 = TotalOf([i \in 1..n |-> rs[i].exemption_breakdown.exempt_guides], n)
            /\ exemptions.total
                 = exemptions.minors + exemptions.bus_drivers + exemptions.tour_guides

\* What calculate_tax_for_booking can return when it runs alone over the tables.
AloneOutcomes(tenant_id, booking_id, check_in_date, check_out_date) ==
    {IF tax_rule = None THEN Raise("TaxCalculationError")
     ELSE CalculateWith(booking_id, check_in_date, check_out_date, Val(tax_rule), gs) :
        tax_rule \in get_active_rule(tax_rules, tenant_id, check_in_date),
        gs \in Orderings(get_by_booking_id(guests, booking_id))}

C26_ValidatedRuleCalculates ==
    \A i \in DOMAIN calls :
        LET run == LastRun(i)
        IN  ( /\ calls[i].last # None
              /\ run.tax_rule # None
              /\ validate_tax_configuration(Val(run.tax_rule)) = <<>>
              /\ run.roster # {}
              /\ DateLT(run.check_in_date, run.check_out_date) )
            => /\ run.raised = ""
               /\ run.result # None
               /\ Val(run.result).total_tax_amount >= 0
               /\ 0 <= Val(run.result).taxable_guests
               /\ Val(run.result).taxable_guests <= Val(run.result).total_guests

\* The guests as they are before GuestService flags any of them (the bookings start
\* with no guest flagged).
Unflagged(roster) == {[g EXCEPT !.is_tax_exempt = FALSE] : g \in roster}

\* C27 (as claimed): the flags that GuestService.calculate_tax_exemptions writes with
\* its threshold 14 change no tax result: the taxable guests, the exempt guests and
\* the total tax of every result are those of the calculation over the same guests
\* without the flags, under whatever rule.
C27_FlagsChangeNoResult ==
    \A i \in DOMAIN calls :
        HasResult(i) =>
            LET run == LastRun(i)
                r == LastResult(i)
            IN  \A gs \in Orderings(Unflagged(run.roster)) :
                    LET before == CalculateWith(run.booking_id, run.check_in_date,
                                       run.check_out_date, Val(run.tax_rule), gs)
                    IN  /\ before.result # None
                        /\ r.taxable_guests = Val(before.result).taxable_guests
                        /\ r.exempt_guests = Val(before.result).exempt_guests
                        /\ r.total_tax_amount = Val(before.result).total_tax_amount

\* C28 (as claimed): GuestService.calculate_tax_exemptions counts as minors the
\* guests whom TaxCalculationService counts as minors under the same threshold: the
\* guests whose age in calendar years on the check-in date is below it.
C28_SameMinors ==
    Reported("calculate_tax_exemptions") =>
        LET a == Val(answer)
        IN  a.value.exempt_minors
              = Cardinality({g \in a.roster :
                    _calculate_age(g.date_of_birth, a.check_in_date) < a.age_threshold})

\* The status of a booking, None when the table has no such booking.
StatusOf(rows, booking_id) ==
    IF \E b \in rows : b.id = booking_id
    THEN Some((CHOOSE b \in rows : b.id = booking_id).status)
    ELSE None

\* C29 (as claimed): an operation of BookingService changes the status of a booking
\* only from pending to in_progress, from in_progress to complete, from complete to
\* synced, or into error: no step is skipped and no booking goes back from complete
\* or synced; and an operation that is rejected leaves every status as it was.
C29_StatusProgression ==
    [][\A booking_id \in BookingIds :
          LET old == StatusOf(bookings, booking_id)
              new == StatusOf(bookings', booking_id)
          IN  /\ new # old =>
                    \/ <<old, new>> \in {<<Some(PENDING), Some(IN_PROGRESS)>>,
                                         <<Some(IN_PROGRESS), Some(COMPLETE)>>,
                                         <<Some(COMPLETE), Some(SYNCED)>>}
                    \/ old # None /\ new = Some(ERROR)
              /\ (answer' # None /\ answer' # answer
                     /\ "raised" \in DOMAIN Val(answer') /\ Val(answer').raised # "")
                    => new = old]_vars

\* C30 (as claimed): whatever leaders, members and lists of members are entered, no
\* booking has more than one guest with the role LEADER.
C30_OneLeader ==
    \A booking_id \in {"b1", "b2"} :
        Cardinality({g \in guests : g.booking_id = booking_id /\ g.role = LEADER}) <= 1

====
